---- MODULE Spec2Model ----
(***************************************************************************)
(* Model of utils/plot_baseten_vs_b200.py: main() loads the Baseten        *)
(* results (Series A) and the B200 TensorRT results (Series B), selects    *)
(* one Series-B record per concurrency, and computes the points of the two *)
(* comparison charts.                                                      *)
(***************************************************************************)
EXTENDS Integers, Sequences, FiniteSets

VARIABLES
  argc,             \* len(sys.argv)
  dir_exists,       \* baseten_dir.exists()
  file_exists,      \* inferencemax_json.exists()
  files,            \* the *.json files of the directory, in glob order
  b200_json_ok,     \* whether json.load of the Series-B file succeeds
  all_data,         \* the parsed Series-B array
  pc,               \* position in main and its callees
  fi,               \* load_baseten_results: index of the next file
  results,          \* load_baseten_results: the list being built
  baseten_results,  \* main: the loaded Series A
  b200_trt,         \* load_b200_trt_results: the hardware-filtered records
  bi,               \* load_b200_trt_results: index of the next record
  best_by_conc,     \* load_b200_trt_results: dict, as <<key, value>> entries in insertion order
  b200_best,        \* main: bestPerConcurrency
  b200_all,         \* main: allFiltered
  b200_points,      \* plot_comparison: the Series-B points
  baseten_points,   \* plot_comparison: the Series-A points
  detailed_all,     \* plot_comparison_with_all_b200_configs: the points of all Series-B records
  detailed_points,  \* plot_comparison_with_all_b200_configs: the Series-A points
  saved,            \* the image files written so far
  error,            \* the uncaught exception, "none" while there is none
  exit_status       \* the process exit status, Running until the process ends

vars == <<argc, dir_exists, file_exists, files, b200_json_ok, all_data, pc, fi,
          results, baseten_results, b200_trt, bi, best_by_conc, b200_best,
          b200_all, b200_points, baseten_points, detailed_all,
          detailed_points, saved,
          error, exit_status>>

-----------------------------------------------------------------------------
(* Bounds of the model. *)

MaxB == 2

MaxFiles == 2

(* Values of the program. *)

None == -1

Absent == "<absent>"

Running == -1

TP8 == 8

BASETEN_GPU_COUNT == 8

MinCompleted == 10

-----------------------------------------------------------------------------
(* dict.get(key, default): a field that is missing reads as the default. *)
Get(v, default) == IF v = None THEN default ELSE v

(* A float quotient n / d, kept exact as a fraction. *)
Frac(n, d) == [num |-> n, den |-> d]

FracLess(a, b) == a.num * b.den < b.num * a.den

Range(s) == {s[i] : i \in DOMAIN s}

SeqsUpTo(S, n) == UNION {[1..k -> S] : k \in 0..n}

-----------------------------------------------------------------------------
(* sorted(xs, key=...) and list.sort(key=...): a stable sort, as the        *)
(* insertion of each element after the elements whose key is not greater.  *)

(* Variant: an element goes before the elements of equal key, which       *)
(* reverses ties.                                                          *)
RECURSIVE InsertBeforeEqual(_, _)
InsertBeforeEqual(s, x) ==
  IF s = <<>> THEN <<x>>
  ELSE IF x.key <= Head(s).key THEN <<x>> \o s
  ELSE <<Head(s)>> \o InsertBeforeEqual(Tail(s), x)

RECURSIVE InsertByKey(_, _)
InsertByKey(s, x) ==
  IF s = <<>> THEN <<x>>
  ELSE IF x.key < Head(s).key THEN <<x>> \o s
  ELSE <<Head(s)>> \o InsertByKey(Tail(s), x)

RECURSIVE SortByKey(_)
SortByKey(s) ==
  IF s = <<>> THEN <<>>
  ELSE InsertByKey(SortByKey(SubSeq(s, 1, Len(s) - 1)), s[Len(s)])

(* The values of a sequence of [key, val] entries. *)
Values(s) == [i \in DOMAIN s |-> s[i].val]

-----------------------------------------------------------------------------
(* re.search(r'conc(\d+)', stem) and int(match.group(1)): the leftmost      *)
(* place where "conc" is followed by a digit, and the value of the longest *)
(* run of digits that starts there. A file stem is a sequence of           *)
(* characters.                                                             *)

Digits == {"0", "1", "2", "3", "4", "5", "6", "7", "8", "9"}

DigitValue(c) ==
  CASE c = "0" -> 0 [] c = "1" -> 1 [] c = "2" -> 2 [] c = "3" -> 3
    [] c = "4" -> 4 [] c = "5" -> 5 [] c = "6" -> 6 [] c = "7" -> 7
    [] c = "8" -> 8 [] c = "9" -> 9

MatchesAt(stem, i) ==
  /\ i + 4 <= Len(stem)
  /\ SubSeq(stem, i, i + 3) = <<"c", "o", "n", "c">>
  /\ stem[i + 4] \in Digits

(* The last index of the run of digits that starts at index i. *)
RECURSIVE DigitsEnd(_, _)
DigitsEnd(stem, i) ==
  IF i + 1 <= Len(stem) /\ stem[i + 1] \in Digits
  THEN DigitsEnd(stem, i + 1)
  ELSE i

(* int() of the digits stem[i..j]. *)
RECURSIVE IntOf(_, _, _)
IntOf(stem, i, j) ==
  IF j < i THEN 0
  ELSE 10 * IntOf(stem, i, j - 1) + DigitValue(stem[j])

ConcFromStem(stem) ==
  LET starts == {i \in 1..Len(stem) : MatchesAt(stem, i)}
  IN  IF starts = {} THEN None
      ELSE LET i == CHOOSE m \in starts : \A n \in starts : m <= n
           IN  IntOf(stem, i + 4, DigitsEnd(stem, i + 4))

-----------------------------------------------------------------------------
(* load_baseten_results *)

(* The concurrency of a parsed file: its max_concurrency field, else the   *)
(* number in its name, else None.                                          *)
ResolveConcurrency(f) ==
  IF f.max_concurrency # None THEN f.max_concurrency ELSE ConcFromStem(f.stem)

(* result['concurrency'] = conc. The id is the file's place in the glob    *)
(* order: it stands for the identity of the record and is no JSON field.   *)
WithConcurrency(f, conc) ==
  [id |-> f.id, concurrency |-> conc, completed |-> f.completed,
   total_requests |-> f.total_requests, num_prompts |-> f.num_prompts,
   total_token_throughput |-> f.total_token_throughput,
   median_e2el_ms |-> f.median_e2el_ms]

(* One pass of the loop over the files: a file that cannot be read or      *)
(* parsed is skipped with a warning, a file with no concurrency is dropped.*)
LoadedFile(rs, f) ==
  IF f.parse_ok /\ ResolveConcurrency(f) # None
  THEN Append(rs, WithConcurrency(f, ResolveConcurrency(f)))
  ELSE rs

(* results.sort(key=lambda x: x.get('concurrency', 0)) *)
SortedByConcurrency(rs) ==
  Values(SortByKey([i \in DOMAIN rs |->
                      [key |-> Get(rs[i].concurrency, 0), val |-> rs[i]]]))

-----------------------------------------------------------------------------
(* load_b200_trt_results *)

IsB200Trt(r) ==
  \/ r.hw = "b200-trt"
  \/ r.hw = "b200-nvs"
  \/ (r.hw = "b200" /\ r.framework = "trt")

B200Filter(data) == SelectSeq(data, IsB200Trt)

HasKey(d, k) == \E i \in DOMAIN d : d[i].key = k

Lookup(d, k) == d[CHOOSE i \in DOMAIN d : d[i].key = k].val

(* d[k] = v: a new key goes to the end, an old key keeps its place. *)
Put(d, k, v) ==
  IF HasKey(d, k)
  THEN [i \in DOMAIN d |-> IF d[i].key = k THEN [key |-> k, val |-> v] ELSE d[i]]
  ELSE Append(d, [key |-> k, val |-> v])

(* best['tput_per_gpu'] is read with no default, and only when neither the *)
(* record nor the current best has tp 8.                                   *)
RaisesKeyError(best, r) ==
  /\ Get(r.tp, 0) # TP8
  /\ Get(best.tp, 0) # TP8
  /\ best.tput_per_gpu = None

(* Variant: the higher per-unit throughput wins also against a best with  *)
(* tp 8.                                                                   *)
ReplacesByThroughput(best, r) ==
  IF Get(r.tp, 0) = TP8 THEN TRUE
  ELSE Get(r.tput_per_gpu, 0) > best.tput_per_gpu

(* Variant: an equal per-unit throughput replaces the current best. *)
ReplacesOnTie(best, r) ==
  IF Get(r.tp, 0) = TP8 THEN TRUE
  ELSE /\ Get(best.tp, 0) # TP8
       /\ Get(r.tput_per_gpu, 0) >= best.tput_per_gpu

(* Whether record r replaces the current best of its concurrency. *)
Replaces(best, r) ==
  IF Get(r.tp, 0) = TP8 THEN TRUE
  ELSE /\ Get(best.tp, 0) # TP8
       /\ Get(r.tput_per_gpu, 0) > best.tput_per_gpu

(* One pass of the selection loop, when it raises nothing. *)
Selected(d, r) ==
  LET conc == Get(r.conc, 0)
  IN  IF ~HasKey(d, conc) THEN Put(d, conc, r)
      ELSE IF Replaces(Lookup(d, conc), r) THEN Put(d, conc, r)
      ELSE d

SelectRaises(d, r) ==
  LET conc == Get(r.conc, 0)
  IN  HasKey(d, conc) /\ RaisesKeyError(Lookup(d, conc), r)

(* Variant: the values in insertion order, with no sort. *)
ValuesInInsertionOrder(d) == Values(d)

(* sorted(best_by_conc.values(), key=lambda x: x.get('conc', 0)) *)
SortedByConc(d) ==
  Values(SortByKey([i \in DOMAIN d |->
                      [key |-> Get(d[i].val.conc, 0), val |-> d[i].val]]))

-----------------------------------------------------------------------------
(* plot_comparison and plot_comparison_with_all_b200_configs *)

(* Variant: the per-unit throughput is used whatever the tp. *)
B200PointPerGpu(r) ==
  LET tp == Get(r.tp, 0)
      tput_per_gpu == Get(r.tput_per_gpu, 0)
  IN  [src |-> r.id,
       conc |-> Get(r.conc, 0),
       e2el |-> Get(r.median_e2el, 0),
       tput |-> tput_per_gpu,
       label |-> [tp |-> tp, unit |-> IF tp = TP8 THEN "per GPU" ELSE "total"]]

(* The point of one record of b200_best. *)
B200Point(r) ==
  LET tp == Get(r.tp, 0)
      tput_per_gpu == Get(r.tput_per_gpu, 0)
  IN  [src |-> r.id,
       conc |-> Get(r.conc, 0),
       e2el |-> Get(r.median_e2el, 0),
       tput |-> IF tp = TP8 THEN tput_per_gpu ELSE tput_per_gpu * tp,
       label |-> [tp |-> tp, unit |-> IF tp = TP8 THEN "per GPU" ELSE "total"]]

B200Points(best) == [i \in DOMAIN best |-> B200Point(best[i])]

(* total_requests = result.get('total_requests', result.get('num_prompts', completed)) *)
TotalRequests(result) ==
  Get(result.total_requests, Get(result.num_prompts, Get(result.completed, 0)))

(* Variant: a completion rate of exactly 0.5 counts as unreliable. *)
UnreliableAtHalf(result) ==
  LET completed == Get(result.completed, 0)
      total_requests == Get(result.total_requests,
                            Get(result.num_prompts, Get(result.completed, 0)))
  IN  \/ completed < MinCompleted
      \/ /\ total_requests > 0
         /\ ~FracLess(Frac(1, 2), Frac(completed, total_requests))

(* completed < 10 or (total_requests > 0 and completed / total_requests < 0.5) *)
Unreliable(result) ==
  LET completed == Get(result.completed, 0)
      total_requests == TotalRequests(result)
  IN  \/ completed < MinCompleted
      \/ /\ total_requests > 0
         /\ FracLess(Frac(completed, total_requests), Frac(1, 2))

(* A record the loop passes over: concurrency 0, or unreliable. *)
Skipped(result) ==
  Get(result.concurrency, 0) = 0 \/ Unreliable(result)

Plotted(result) == ~Skipped(result)

(* The tp of the first record of b200_best with this concurrency, else None. *)
TpAtConc(best, conc) ==
  LET at == {i \in DOMAIN best : Get(best[i].conc, 0) = conc}
  IN  IF at = {} THEN None
      ELSE Get(best[CHOOSE i \in at : \A j \in at : i <= j].tp, 0)

(* Variant: a concurrency with no Series-B record counts as tp 8. *)
BasetenTputDefaultPerGpu(result, best) ==
  LET total_tput == Get(result.total_token_throughput, 0)
  IN  IF TpAtConc(best, Get(result.concurrency, 0)) \in {TP8, None}
      THEN Frac(total_tput, BASETEN_GPU_COUNT)
      ELSE Frac(total_tput, 1)

(* Variant: the aggregate throughput is never divided. *)
BasetenTputTotal(result, best) ==
  Frac(Get(result.total_token_throughput, 0), 1)

(* The comparable throughput of a Series-A record. *)
BasetenTput(result, best) ==
  LET total_tput == Get(result.total_token_throughput, 0)
  IN  IF TpAtConc(best, Get(result.concurrency, 0)) = TP8
      THEN Frac(total_tput, BASETEN_GPU_COUNT)
      ELSE Frac(total_tput, 1)

BasetenPoint(result, best) ==
  [src |-> result.id,
   conc |-> Get(result.concurrency, 0),
   e2el |-> Frac(Get(result.median_e2el_ms, 0), 1000),
   tput |-> BasetenTput(result, best)]

BasetenPoints(rs, best) ==
  LET kept == SelectSeq(rs, Plotted)
  IN  [i \in DOMAIN kept |-> BasetenPoint(kept[i], best)]

(* The point of one record of b200_all in the detailed chart. *)
AllPoint(r) ==
  [src |-> r.id, conc |-> Get(r.conc, 0), e2el |-> Get(r.median_e2el, 0),
   tput |-> Get(r.tput_per_gpu, 0), tp |-> Get(r.tp, 0)]

AllPoints(all) == [i \in DOMAIN all |-> AllPoint(all[i])]

-----------------------------------------------------------------------------
(* main *)

(* sys.exit(code), or the end of the process by an uncaught exception. *)
Exit(code) == pc' = "exit" /\ exit_status' = code

MainArgs ==
  /\ pc = "main"
  /\ IF argc < 3 THEN Exit(1) ELSE pc' = "check_paths" /\ exit_status' = exit_status
  /\ UNCHANGED <<argc, dir_exists, file_exists, files, b200_json_ok, all_data,
                 fi, results, baseten_results, b200_trt, bi, best_by_conc,
                 b200_best, b200_all, b200_points, baseten_points,
                 detailed_all, detailed_points, saved, error>>

MainPaths ==
  /\ pc = "check_paths"
  /\ IF ~dir_exists THEN Exit(1)
     ELSE IF ~file_exists THEN Exit(1)
     ELSE pc' = "load_baseten" /\ exit_status' = exit_status
  /\ UNCHANGED <<argc, dir_exists, file_exists, files, b200_json_ok, all_data,
                 fi, results, baseten_results, b200_trt, bi, best_by_conc,
                 b200_best, b200_all, b200_points, baseten_points,
                 detailed_all, detailed_points, saved, error>>

(* load_baseten_results: one pass of the loop over the files. *)
LoadBasetenFile ==
  /\ pc = "load_baseten"
  /\ fi <= Len(files)
  /\ results' = LoadedFile(results, files[fi])
  /\ fi' = fi + 1
  /\ UNCHANGED <<argc, dir_exists, file_exists, files, b200_json_ok, all_data,
                 pc, baseten_results, b200_trt, bi, best_by_conc, b200_best,
                 b200_all, b200_points, baseten_points, detailed_all,
                 detailed_points, saved, error, exit_status>>

(* load_baseten_results: the sort and the return to main. *)
LoadBasetenReturn ==
  /\ pc = "load_baseten"
  /\ fi > Len(files)
  /\ baseten_results' = SortedByConcurrency(results)
  /\ pc' = "load_b200"
  /\ UNCHANGED <<argc, dir_exists, file_exists, files, b200_json_ok, all_data,
                 fi, results, b200_trt, bi, best_by_conc, b200_best, b200_all,
                 b200_points, baseten_points, detailed_all, detailed_points,
                 saved, error, exit_status>>

(* load_b200_trt_results: json.load, which main does not catch, and the    *)
(* hardware filter.                                                        *)
LoadB200Open ==
  /\ pc = "load_b200"
  /\ IF b200_json_ok
     THEN /\ b200_trt' = B200Filter(all_data)
          /\ pc' = "select"
          /\ UNCHANGED <<error, exit_status>>
     ELSE /\ error' = "JSONDecodeError"
          /\ Exit(1)
          /\ UNCHANGED b200_trt
  /\ UNCHANGED <<argc, dir_exists, file_exists, files, b200_json_ok, all_data,
                 fi, results, baseten_results, bi, best_by_conc, b200_best,
                 b200_all, b200_points, baseten_points, detailed_all,
                 detailed_points, saved>>

(* load_b200_trt_results: one pass of the selection loop. *)
LoadB200Select ==
  /\ pc = "select"
  /\ bi <= Len(b200_trt)
  /\ IF SelectRaises(best_by_conc, b200_trt[bi])
     THEN /\ error' = "KeyError"
          /\ Exit(1)
          /\ UNCHANGED <<best_by_conc, bi>>
     ELSE /\ best_by_conc' = Selected(best_by_conc, b200_trt[bi])
          /\ bi' = bi + 1
          /\ UNCHANGED <<pc, error, exit_status>>
  /\ UNCHANGED <<argc, dir_exists, file_exists, files, b200_json_ok, all_data,
                 fi, results, baseten_results, b200_trt, b200_best, b200_all,
                 b200_points, baseten_points, detailed_all, detailed_points,
                 saved>>

(* load_b200_trt_results: the sort and the return to main. *)
LoadB200Return ==
  /\ pc = "select"
  /\ bi > Len(b200_trt)
  /\ b200_best' = SortedByConc(best_by_conc)
  /\ b200_all' = b200_trt
  /\ pc' = "check_results"
  /\ UNCHANGED <<argc, dir_exists, file_exists, files, b200_json_ok, all_data,
                 fi, results, baseten_results, b200_trt, bi, best_by_conc,
                 b200_points, baseten_points, detailed_all, detailed_points,
                 saved, error, exit_status>>

(* Variant: only Series A is checked for emptiness. *)
MainCheckResultsSeriesAOnly ==
  /\ pc = "check_results"
  /\ IF baseten_results = <<>> THEN Exit(1)
     ELSE pc' = "plot_comparison" /\ exit_status' = exit_status
  /\ UNCHANGED <<argc, dir_exists, file_exists, files, b200_json_ok, all_data,
                 fi, results, baseten_results, b200_trt, bi, best_by_conc,
                 b200_best, b200_all, b200_points, baseten_points,
                 detailed_all, detailed_points, saved, error>>

MainCheckResults ==
  /\ pc = "check_results"
  /\ IF baseten_results = <<>> THEN Exit(1)
     ELSE IF b200_best = <<>> THEN Exit(1)
     ELSE pc' = "plot_comparison" /\ exit_status' = exit_status
  /\ UNCHANGED <<argc, dir_exists, file_exists, files, b200_json_ok, all_data,
                 fi, results, baseten_results, b200_trt, bi, best_by_conc,
                 b200_best, b200_all, b200_points, baseten_points,
                 detailed_all, detailed_points, saved, error>>

PlotComparison ==
  /\ pc = "plot_comparison"
  /\ b200_points' = B200Points(b200_best)
  /\ baseten_points' = BasetenPoints(baseten_results, b200_best)
  /\ saved' = saved \cup {"baseten_vs_b200_comparison.png"}
  /\ pc' = "plot_detailed"
  /\ UNCHANGED <<argc, dir_exists, file_exists, files, b200_json_ok, all_data,
                 fi, results, baseten_results, b200_trt, bi, best_by_conc,
                 b200_best, b200_all, detailed_all, detailed_points, error,
                 exit_status>>

(* plot_comparison_with_all_b200_configs, and the return of main. *)
PlotDetailed ==
  /\ pc = "plot_detailed"
  /\ detailed_all' = AllPoints(b200_all)
  /\ detailed_points' = BasetenPoints(baseten_results, b200_best)
  /\ saved' = saved \cup {"baseten_vs_b200_detailed.png"}
  /\ Exit(0)
  /\ UNCHANGED <<argc, dir_exists, file_exists, files, b200_json_ok, all_data,
                 fi, results, baseten_results, b200_trt, bi, best_by_conc,
                 b200_best, b200_all, b200_points, baseten_points, error>>

Next ==
  \/ MainArgs
  \/ MainPaths
  \/ LoadBasetenFile
  \/ LoadBasetenReturn
  \/ LoadB200Open
  \/ LoadB200Select
  \/ LoadB200Return
  \/ MainCheckResults
  \/ PlotComparison
  \/ PlotDetailed

-----------------------------------------------------------------------------
(* The inputs of a run, and the state in which main starts. *)

File(i, f) ==
  [id |-> i, parse_ok |-> f.parse_ok, stem |-> f.stem,
   max_concurrency |-> f.max_concurrency, completed |-> f.completed,
   total_requests |-> f.total_requests, num_prompts |-> f.num_prompts,
   total_token_throughput |-> f.total_token_throughput,
   median_e2el_ms |-> f.median_e2el_ms]

Record(i, r) ==
  [id |-> i, hw |-> r.hw, framework |-> r.framework, conc |-> r.conc,
   tp |-> r.tp, tput_per_gpu |-> r.tput_per_gpu, median_e2el |-> r.median_e2el]

Start(a, de, fe, jok, fs, ad) ==
  /\ argc = a
  /\ dir_exists = de
  /\ file_exists = fe
  /\ b200_json_ok = jok
  /\ files = [i \in DOMAIN fs |-> File(i, fs[i])]
  /\ all_data = [i \in DOMAIN ad |-> Record(i, ad[i])]
  /\ pc = "main"
  /\ fi = 1
  /\ results = <<>>
  /\ baseten_results = <<>>
  /\ b200_trt = <<>>
  /\ bi = 1
  /\ best_by_conc = <<>>
  /\ b200_best = <<>>
  /\ b200_all = <<>>
  /\ b200_points = <<>>
  /\ baseten_points = <<>>
  /\ detailed_all = <<>>
  /\ detailed_points = <<>>
  /\ saved = {}
  /\ error = "none"
  /\ exit_status = Running

(* A file of the directory that loads, passes the reliability filter and   *)
(* has concurrency 16; a record of the array that passes the hardware      *)
(* filter.                                                                 *)
GoodFile ==
  [parse_ok |-> TRUE, stem |-> <<"c", "o", "n", "c", "1", "6">>,
   max_concurrency |-> None, completed |-> 60, total_requests |-> 100,
   num_prompts |-> None, total_token_throughput |-> 3200,
   median_e2el_ms |-> 1500]

GoodRecord ==
  [hw |-> "b200-trt", framework |-> Absent, conc |-> 16, tp |-> 8,
   tput_per_gpu |-> 400, median_e2el |-> 2]

(* Series-B arrays for the selection rule: every field the rule reads may  *)
(* be missing, and a record may fail the hardware filter.                  *)
SelectRecords ==
  [hw : {"b200-trt", "h100"}, framework : {Absent}, conc : {None, 16, 32},
   tp : {None, 2, 8}, tput_per_gpu : {None, 300, 400}, median_e2el : {2}]

InitSelect ==
  \E ad \in SeqsUpTo(SelectRecords, MaxB) :
    Start(3, TRUE, TRUE, TRUE, <<GoodFile>>, ad)

SpecSelect == InitSelect /\ [][Next]_vars

(* Directories for the loader of Series A: a file that cannot be parsed,   *)
(* or a parsed file with or without a max_concurrency field, under a name  *)
(* with or without a conc<digits> part.                                    *)
Stems ==
  {<<"c", "o", "n", "c", "4", "2">>,
   <<"r", "u", "n">>,
   <<"c", "o", "n", "c", "c", "o", "n", "c", "0", "7", "x">>,
   <<"c", "o", "n", "1", "6">>}

LoadFiles ==
  [parse_ok : {TRUE}, stem : Stems, max_concurrency : {None, 7, 42},
   completed : {60}, total_requests : {100}, num_prompts : {None},
   total_token_throughput : {3200}, median_e2el_ms : {1500}]
  \cup
  [parse_ok : {FALSE}, stem : {<<"c", "o", "n", "c", "4", "2">>},
   max_concurrency : {None}, completed : {None}, total_requests : {None},
   num_prompts : {None}, total_token_throughput : {None},
   median_e2el_ms : {None}]

InitLoad ==
  \E fs \in SeqsUpTo(LoadFiles, MaxFiles) :
    Start(3, TRUE, TRUE, TRUE, fs, <<GoodRecord>>)

SpecLoad == InitLoad /\ [][Next]_vars

(* Inputs for the comparable throughput of Series A: the concurrency of a  *)
(* file may or may not be one of Series B, whose record may or may not     *)
(* have tp 8.                                                              *)
ThroughputFiles ==
  [parse_ok : {TRUE}, stem : {<<"r", "u", "n">>}, max_concurrency : {16, 32, 64},
   completed : {5, 60}, total_requests : {100}, num_prompts : {None},
   total_token_throughput : {3200}, median_e2el_ms : {1500}]

ThroughputRecords ==
  [hw : {"b200-trt"}, framework : {Absent}, conc : {16, 32},
   tp : {None, 2, 8}, tput_per_gpu : {400}, median_e2el : {2}]

InitThroughput ==
  \E fs \in SeqsUpTo(ThroughputFiles, MaxFiles) :
    \E ad \in SeqsUpTo(ThroughputRecords, MaxB) :
      Start(3, TRUE, TRUE, TRUE, fs, ad)

SpecThroughput == InitThroughput /\ [][Next]_vars

(* Inputs for the reliability filter: the completed count and the two      *)
(* total counts may be missing, and the concurrency may be 0.              *)
Totals ==
  {[total_requests |-> None, num_prompts |-> None],
   [total_requests |-> 100, num_prompts |-> None],
   [total_requests |-> None, num_prompts |-> 100],
   [total_requests |-> 0, num_prompts |-> 100],
   [total_requests |-> 40, num_prompts |-> None]}

ReliabilityFiles ==
  {[parse_ok |-> TRUE, stem |-> <<"r", "u", "n">>, max_concurrency |-> c,
    completed |-> n, total_requests |-> t.total_requests,
    num_prompts |-> t.num_prompts, total_token_throughput |-> 3200,
    median_e2el_ms |-> None] :
     c \in {0, 16}, n \in {None, 5, 10, 20, 60}, t \in Totals}

InitReliability ==
  \E fs \in SeqsUpTo(ReliabilityFiles, MaxFiles) :
    Start(3, TRUE, TRUE, TRUE, fs, <<GoodRecord>>)

SpecReliability == InitReliability /\ [][Next]_vars

(* Runs of main: the arguments, the paths and the Series-B file may be     *)
(* bad, a file may be unparseable, without concurrency or unreliable, and  *)
(* a record may carry any hardware and framework tag.                      *)
MainFiles ==
  {GoodFile,
   [GoodFile EXCEPT !.parse_ok = FALSE],
   [GoodFile EXCEPT !.stem = <<"r", "u", "n">>],
   [GoodFile EXCEPT !.completed = 5, !.total_token_throughput = None]}

MainRecords ==
  {[GoodRecord EXCEPT !.hw = t[1], !.framework = t[2], !.median_e2el = t[3]] :
     t \in {<<"b200-trt", Absent, 2>>, <<"b200-nvs", "vllm", None>>,
            <<"b200", "trt", 2>>, <<"b200", "vllm", 2>>,
            <<"h100", "trt", 2>>, <<Absent, Absent, None>>}}

Init ==
  \E a \in {2, 3}, de \in BOOLEAN, fe \in BOOLEAN, jok \in BOOLEAN :
    \E fs \in SeqsUpTo(MainFiles, MaxFiles) :
      \E ad \in SeqsUpTo(MainRecords, MaxB) :
        Start(a, de, fe, jok, fs, ad)

Spec == Init /\ [][Next]_vars

-----------------------------------------------------------------------------
(* Notions the properties share. *)

(* The concurrency value of a Series-B record, 0 when the field is missing. *)
ConcOf(r) == Get(r.conc, 0)

TpOf(r) == Get(r.tp, 0)

TputOf(r) == Get(r.tput_per_gpu, 0)

(* load_b200_trt_results has returned to main. *)
B200Returned == pc = "check_results"

(* plot_comparison has returned. *)
ComparisonPlotted == "baseten_vs_b200_comparison.png" \in saved

(* Both charts are written and main has returned. *)
MainReturned == pc = "exit" /\ exit_status = 0

(* The loaded Series-A record a point was computed from. *)
ResultOf(p) == CHOOSE r \in Range(baseten_results) : r.id = p.src

(* The points of Series A of both charts. *)
SeriesAPoints == Range(baseten_points) \cup Range(detailed_points)

(* The records of b200_best with the concurrency of a Series-A record. *)
MatchesOf(r) == {b \in Range(b200_best) : ConcOf(b) = r.concurrency}

-----------------------------------------------------------------------------
(* C1, as stated: while the selection loop runs, a current best with tp 8  *)
(* is never replaced by a later record, whatever the tp of that record.    *)
C1_NeverReplaced ==
  [][pc = "select" =>
       \A i \in DOMAIN best_by_conc :
         TpOf(best_by_conc[i].val) = TP8 =>
           /\ HasKey(best_by_conc', best_by_conc[i].key)
           /\ Lookup(best_by_conc', best_by_conc[i].key) = best_by_conc[i].val]_vars

(* C1, amended: while the selection loop runs, a current best with tp 8 is *)
(* replaced only by a later record that has tp 8 itself, never by a record *)
(* with another tp, whatever its per-unit throughput; the current best of  *)
(* that concurrency keeps tp 8.                                            *)
C1_ReplacedOnlyByTp8 ==
  [][pc = "select" =>
       \A i \in DOMAIN best_by_conc :
         TpOf(best_by_conc[i].val) = TP8 =>
           /\ HasKey(best_by_conc', best_by_conc[i].key)
           /\ TpOf(Lookup(best_by_conc', best_by_conc[i].key)) = TP8
           /\ Lookup(best_by_conc', best_by_conc[i].key) # best_by_conc[i].val
                => TpOf(b200_trt[bi]) = TP8]_vars

(* A record with tp 2 and per-unit throughput 400 was processed after a    *)
(* record of its concurrency with tp 8 and per-unit throughput 300, which  *)
(* is still the current best.                                              *)
C1_Witness ==
  /\ pc = "select"
  /\ bi = 3
  /\ ConcOf(b200_trt[1]) = ConcOf(b200_trt[2])
  /\ b200_trt[1].tp = 8 /\ b200_trt[1].tput_per_gpu = 300
  /\ b200_trt[2].tp = 2 /\ b200_trt[2].tput_per_gpu = 400
  /\ Lookup(best_by_conc, ConcOf(b200_trt[1])) = b200_trt[1]

(* C2: the returned bestPerConcurrency holds at most one record per        *)
(* concurrency value, a record for exactly the concurrency values of the   *)
(* hardware-filtered records, only filtered records, in ascending order of *)
(* concurrency.                                                            *)
C2_BestPerConcurrency ==
  B200Returned =>
    /\ \A i, j \in DOMAIN b200_best :
         ConcOf(b200_best[i]) = ConcOf(b200_best[j]) => i = j
    /\ {ConcOf(r) : r \in Range(b200_best)} =
         {ConcOf(all_data[i]) :
            i \in {n \in DOMAIN all_data :
                     \/ all_data[n].hw \in {"b200-trt", "b200-nvs"}
                     \/ all_data[n].hw = "b200" /\ all_data[n].framework = "trt"}}
    /\ Range(b200_best) \subseteq Range(b200_trt)
    /\ Range(b200_trt) \subseteq Range(all_data)
    /\ \A i, j \in DOMAIN b200_best :
         i < j => ConcOf(b200_best[i]) < ConcOf(b200_best[j])

(* Two filtered records arrived in descending order of concurrency and the *)
(* returned sequence holds both.                                           *)
C2_Witness ==
  /\ B200Returned
  /\ Len(b200_trt) >= 2
  /\ ConcOf(b200_trt[1]) > ConcOf(b200_trt[2])
  /\ Len(b200_best) = 2

(* C10: when the whole filtered array was processed, the selected record   *)
(* of a concurrency has tp 8 if a filtered record of that concurrency has  *)
(* tp 8; otherwise it is the earliest record of that concurrency, in array *)
(* order, whose per-unit throughput is the maximum at that concurrency.    *)
C10_Selection ==
  B200Returned =>
    \A c \in {ConcOf(r) : r \in Range(b200_trt)} :
      LET at == {i \in DOMAIN b200_trt : ConcOf(b200_trt[i]) = c}
          top == {i \in at : \A j \in at : TputOf(b200_trt[j]) <= TputOf(b200_trt[i])}
          sel == CHOOSE r \in Range(b200_best) : ConcOf(r) = c
      IN  /\ \E r \in Range(b200_best) : ConcOf(r) = c
          /\ IF \E i \in at : TpOf(b200_trt[i]) = TP8
             THEN TpOf(sel) = TP8
             ELSE sel = b200_trt[CHOOSE i \in top : \A j \in top : i <= j]

(* Two records of one concurrency, neither with tp 8, the later with the   *)
(* higher per-unit throughput: the later one is selected.                  *)
C10_Witness ==
  /\ B200Returned
  /\ Len(b200_trt) >= 2
  /\ ConcOf(b200_trt[1]) = ConcOf(b200_trt[2])
  /\ TpOf(b200_trt[1]) # TP8 /\ TpOf(b200_trt[2]) # TP8
  /\ TputOf(b200_trt[1]) < TputOf(b200_trt[2])
  /\ b200_trt[2] \in Range(b200_best)

(* C9, as stated: records that lack optional fields never raise; the only  *)
(* exception these runs can raise is the KeyError of the selection loop.   *)
C9_NoException == error = "none"

-----------------------------------------------------------------------------
-----------------------------------------------------------------------------
(* The reliability test as the documentation words it: the completed count *)
(* is below 10, or a total count is present (total_requests, else          *)
(* num_prompts) and completed / total < 0.5.                               *)
StatedUnreliable(r) ==
  LET completed == Get(r.completed, 0)
      present == r.total_requests # None \/ r.num_prompts # None
      total == IF r.total_requests # None THEN r.total_requests ELSE r.num_prompts
  IN  completed < 10 \/ (present /\ 2 * completed < total)

HasPoint(r, points) == \E p \in Range(points) : p.src = r.id

(* C5, as stated: a loaded Series-A record is excluded from the charts     *)
(* exactly when it is unreliable.                                          *)
C5_ExcludedIffUnreliable ==
  MainReturned =>
    \A r \in Range(baseten_results) :
      /\ HasPoint(r, baseten_points) <=> ~StatedUnreliable(r)
      /\ HasPoint(r, detailed_points) <=> ~StatedUnreliable(r)

(* C5, amended: a loaded Series-A record is excluded from the charts       *)
(* exactly when its concurrency is 0 or it is unreliable; with a non-zero  *)
(* concurrency, 5 of 100 and 10 of 100 are excluded, 60 of 100 is included *)
(* and 20 with no total is included.                                       *)
C5_ExcludedIffZeroOrUnreliable ==
  MainReturned =>
    \A r \in Range(baseten_results) :
      LET excluded == r.concurrency = 0 \/ StatedUnreliable(r)
      IN  /\ HasPoint(r, baseten_points) <=> ~excluded
          /\ HasPoint(r, detailed_points) <=> ~excluded
          /\ r.completed \in {5, 10} /\ r.total_requests = 100
               => ~HasPoint(r, baseten_points) /\ ~HasPoint(r, detailed_points)
          /\ r.concurrency # 0 /\ r.completed = 60 /\ r.total_requests = 100
               => HasPoint(r, baseten_points) /\ HasPoint(r, detailed_points)
          /\ (r.concurrency # 0 /\ r.completed = 20
                /\ r.total_requests = None /\ r.num_prompts = None)
               => HasPoint(r, baseten_points) /\ HasPoint(r, detailed_points)

(* A run that excluded a record with 10 of 100 completed and plotted a     *)
(* record with 20 completed and no total, both of concurrency 16.          *)
C5_Witness ==
  /\ MainReturned
  /\ \E r, q \in Range(baseten_results) :
       /\ r.concurrency = 16 /\ r.completed = 10 /\ r.total_requests = 100
       /\ ~HasPoint(r, baseten_points)
       /\ q.concurrency = 16 /\ q.completed = 20
       /\ q.total_requests = None /\ q.num_prompts = None
       /\ HasPoint(q, baseten_points)

-----------------------------------------------------------------------------
(* What the inputs of a run hold. *)

(* A file that parses and has a concurrency: a max_concurrency field or a  *)
(* name with conc<digits>.                                                 *)
Loads(f) ==
  f.parse_ok /\ (f.max_concurrency # None \/ ConcFromStem(f.stem) # None)

PassesHardwareFilter(r) ==
  r.hw \in {"b200-trt", "b200-nvs"} \/ (r.hw = "b200" /\ r.framework = "trt")

BadInvocation == argc < 3 \/ ~dir_exists \/ ~file_exists

NoSeriesALoaded == \A i \in DOMAIN files : ~Loads(files[i])

NoSeriesAReliable ==
  \A i \in DOMAIN files :
    ~Loads(files[i]) \/ StatedUnreliable(files[i])
      \/ Get(files[i].max_concurrency, ConcFromStem(files[i].stem)) = 0

NoSeriesBFiltered == \A i \in DOMAIN all_data : ~PassesHardwareFilter(all_data[i])

Rendered == saved # {}

(* C6, as stated: the run ends with a non-zero status and renders nothing  *)
(* when the invocation is bad, no Series-A record is left after the        *)
(* reliability filter, or no Series-B record is left after the hardware    *)
(* filter; it ends with status 0 only otherwise.                           *)
C6_ExitAfterReliabilityFilter ==
  pc = "exit" =>
    /\ BadInvocation \/ NoSeriesAReliable \/ NoSeriesBFiltered
         => exit_status # 0 /\ ~Rendered
    /\ exit_status = 0
         => ~BadInvocation /\ ~NoSeriesAReliable /\ ~NoSeriesBFiltered

(* C6, amended: the run ends with a non-zero status and renders nothing    *)
(* when the invocation is bad, no Series-A file loads with a concurrency,  *)
(* or no Series-B record is left after the hardware filter; it ends with   *)
(* status 0 only otherwise, and then both charts are written, also when    *)
(* the reliability filter removes every Series-A record.                   *)
C6_ExitAfterLoading ==
  pc = "exit" =>
    /\ BadInvocation \/ NoSeriesALoaded \/ NoSeriesBFiltered
         => exit_status # 0 /\ ~Rendered
    /\ exit_status = 0
         => /\ ~BadInvocation /\ ~NoSeriesALoaded /\ ~NoSeriesBFiltered
            /\ saved = {"baseten_vs_b200_comparison.png",
                        "baseten_vs_b200_detailed.png"}

(* A run that ended with status 0 although the reliability filter left no  *)
(* Series-A point.                                                         *)
C6_Witness ==
  /\ pc = "exit"
  /\ exit_status = 0
  /\ baseten_results # <<>>
  /\ baseten_points = <<>>

-----------------------------------------------------------------------------
(* The number a file name carries after conc, for the names of the model.  *)
NameConc(stem) ==
  CASE stem = <<"c", "o", "n", "c", "4", "2">> -> 42
    [] stem = <<"c", "o", "n", "c", "c", "o", "n", "c", "0", "7", "x">> -> 7
    [] OTHER -> None

ExpectedConcurrency(f) ==
  IF f.max_concurrency # None THEN f.max_concurrency ELSE NameConc(f.stem)

(* C8: the loaded Series A holds one record for each parsed file with a    *)
(* concurrency, which is the max_concurrency field when present and else   *)
(* the number after conc in the file name (conc42 gives 42); the other     *)
(* files are dropped; the records are in ascending order of concurrency,   *)
(* those of equal concurrency in the order the files were met.             *)
C8_LoadedSeriesA ==
  pc = "load_b200" =>
    LET kept == {i \in DOMAIN files :
                   files[i].parse_ok /\ ExpectedConcurrency(files[i]) # None}
    IN  /\ Len(baseten_results) = Cardinality(kept)
        /\ {r.id : r \in Range(baseten_results)} = kept
        /\ \A r \in Range(baseten_results) :
             r.concurrency = ExpectedConcurrency(files[r.id])
        /\ \A i, j \in DOMAIN baseten_results :
             i < j =>
               \/ baseten_results[i].concurrency < baseten_results[j].concurrency
               \/ /\ baseten_results[i].concurrency = baseten_results[j].concurrency
                  /\ baseten_results[i].id < baseten_results[j].id

(* A file named conc42 with no field was met before a file with field 7,   *)
(* and the loaded series starts with the latter.                           *)
C8_Witness ==
  /\ pc = "load_b200"
  /\ Len(files) >= 2
  /\ files[1].parse_ok /\ files[1].max_concurrency = None
  /\ files[1].stem = <<"c", "o", "n", "c", "4", "2">>
  /\ files[2].parse_ok /\ files[2].max_concurrency = 7
  /\ Len(baseten_results) >= 2
  /\ baseten_results[1].id = 2
  /\ \E i \in DOMAIN baseten_results :
       baseten_results[i].id = 1 /\ baseten_results[i].concurrency = 42

====
